---- MODULE Spec2Model ----
(***************************************************************************)
(* State-machine model of utilmy/decorators.py:                            *)
(*   os_multithread  (thread fan-out and join),                            *)
(*   timeout         (SIGALRM based deadline decorator),                   *)
(*   threading_d     (background-thread decorator),                        *)
(* and of pd_read_file, the multi-file reader exercised by test.py.        *)
(***************************************************************************)
EXTENDS Integers, Sequences, FiniteSets, TLC

\* ------------------------------------------------------------------ bounds
\* Largest number of keyword tasks handed to one os_multithread call.
MaxTasks == 3

VARIABLES
  \* ---- os_multithread
  kwargs,           \* the keyword arguments: sequence of [key, fn, args], in keyword order
  list_of_threads,  \* the ThreadWithResult objects, in creation order
  pc,               \* position of the calling thread inside os_multithread
  idx,              \* position of the running for-loop (start loop, join loop)
  results,          \* the list being built at line 183-186
  invoked,          \* history: every invocation of a target, as [thread, fn, args]
  finished,         \* history: thread numbers in the order their function() ended
  \* ---- timeout
  clock,            \* seconds elapsed on the process clock
  alarm,            \* the process's single pending SIGALRM: its due time, 0 when none
  handler,          \* the handler installed for SIGALRM
  stack,            \* active wrapper frames of the main thread: [seconds, entered]
  exc,              \* TRUE while _TimeoutError propagates up the stack
  \* ---- threading_d
  bg_threads,       \* the background threads created by the wrapper, in call order
  td_invoked,       \* history: every invocation of func, as [thread, args, kwargs]
  \* ---- pd_read_file
  file_list,        \* the glob's matches: the row count of each matched file
  n_pool,           \* the pool size of the running call
  rfpc,             \* position of the running pd_read_file call
  todo,             \* per worker, the files of its batch not read yet
  partial,          \* per worker, the rows of the table it has built
  reads,            \* history: per file, how many times a worker read it
  combined,         \* row count of the combined table
  outcomes          \* history: [pool, rows] of every finished call on file_list

mtVars == <<kwargs, list_of_threads, pc, idx, results, invoked, finished>>
toVars == <<clock, alarm, handler, stack, exc>>
tdVars == <<bg_threads, td_invoked>>
rfVars == <<file_list, n_pool, rfpc, todo, partial, reads, combined, outcomes>>

vars == <<mtVars, toVars, tdVars, rfVars>>

\* ---------------------------------------------------------------- callables
\* test_print of test.py: with no argument, args becomes None (list.append
\* returns None) and args[0] raises TypeError; otherwise args[0]*args[0].
test_print(args) ==
  IF Len(args) = 0
    THEN [raised |-> TRUE, value |-> 0]
    ELSE [raised |-> FALSE, value |-> args[1] * args[1]]

\* A callable that accepts any argument tuple, the empty one included
\* (function3=(function_name3, (,)) of the docstring): it returns len(args).
nargs(args) == [raised |-> FALSE, value |-> Len(args)]

\* target(*args, **kwargs) of ThreadWithResult.function, kwargs being {}.
Apply(fn, args) ==
  IF fn = "test_print" THEN test_print(args) ELSE nargs(args)

\* The (callable, argument-tuple) pairs a caller submits.
TaskChoices ==
  { [fn |-> "test_print", args |-> <<5>>],
    [fn |-> "test_print", args |-> << >>],
    [fn |-> "nargs",      args |-> << >>] }

\* Keyword names: key k stands for the keyword "function<k>".
Keys == 1..MaxTasks

\* A keyword-argument dict has pairwise different keys and keeps their order.
KwargsOfLen(n) ==
  { kw \in [1..n -> [key : Keys, fn : {"test_print", "nargs"}, args : {<<5>>, << >>}]] :
      /\ \A i \in 1..n : [fn |-> kw[i].fn, args |-> kw[i].args] \in TaskChoices
      /\ \A i, j \in 1..n : i # j => kw[i].key # kw[j].key }

N == Len(kwargs)

\* ------------------------------------------------------------ os_multithread
\* ThreadWithResult(target=thread[0], args=thread[1]): a thread not yet started,
\* with no attribute `result`.
ThreadWithResult(target, args) ==
  [target |-> target, args |-> args, state |-> "initial",
   hasResult |-> FALSE, result |-> 0]

MtInit ==
  /\ kwargs \in UNION { KwargsOfLen(n) : n \in 0..MaxTasks }
  /\ list_of_threads = << >>
  /\ pc = "create"
  /\ idx = 1
  /\ results = << >>
  /\ invoked = << >>
  /\ finished = << >>

\* lines 176-178: one loop iteration.
Create ==
  /\ pc = "create"
  /\ Len(list_of_threads) < N
  /\ LET k == Len(list_of_threads) + 1 IN
       list_of_threads' =
         Append(list_of_threads, ThreadWithResult(kwargs[k].fn, kwargs[k].args))
  /\ UNCHANGED <<kwargs, pc, idx, results, invoked, finished>>
  /\ UNCHANGED <<toVars, tdVars, rfVars>>

\* line 176 exhausted, line 180 entered.
CreateDone ==
  /\ pc = "create"
  /\ Len(list_of_threads) = N
  /\ pc' = "start"
  /\ idx' = 1
  /\ UNCHANGED <<kwargs, list_of_threads, results, invoked, finished>>
  /\ UNCHANGED <<toVars, tdVars, rfVars>>

\* lines 180-181: thread.start() of the idx-th thread.
Start ==
  /\ pc = "start"
  /\ idx <= Len(list_of_threads)
  /\ list_of_threads[idx].state = "initial"
  /\ list_of_threads' = [list_of_threads EXCEPT ![idx].state = "running"]
  /\ idx' = idx + 1
  /\ UNCHANGED <<kwargs, pc, results, invoked, finished>>
  /\ UNCHANGED <<toVars, tdVars, rfVars>>

\* Mutant of StartDone: the start loop is left one thread early.
StartDoneEarly ==
  /\ pc = "start"
  /\ idx >= Len(list_of_threads)
  /\ pc' = "join"
  /\ idx' = 1
  /\ results' = << >>
  /\ UNCHANGED <<kwargs, list_of_threads, invoked, finished>>
  /\ UNCHANGED <<toVars, tdVars, rfVars>>

\* line 180 exhausted, lines 183-184 entered.
StartDone ==
  /\ pc = "start"
  /\ idx > Len(list_of_threads)
  /\ pc' = "join"
  /\ idx' = 1
  /\ results' = << >>
  /\ UNCHANGED <<kwargs, list_of_threads, invoked, finished>>
  /\ UNCHANGED <<toVars, tdVars, rfVars>>

\* lines 170-171, run by worker thread t: self.result = target(*args, **kwargs).
\* When target raises, the assignment never happens and the thread ends.
ThreadFunction(t) ==
  LET th == list_of_threads[t]
      r  == Apply(th.target, th.args)
  IN  IF r.raised
        THEN [th EXCEPT !.state = "finishing"]
        ELSE [th EXCEPT !.state = "finishing", !.hasResult = TRUE, !.result = r.value]

WorkerRun(t) ==
  /\ t \in DOMAIN list_of_threads
  /\ list_of_threads[t].state = "running"
  /\ list_of_threads' = [list_of_threads EXCEPT ![t] = ThreadFunction(t)]
  /\ invoked' = Append(invoked, [thread |-> t, fn |-> list_of_threads[t].target,
                                 args |-> list_of_threads[t].args])
  /\ finished' = Append(finished, t)
  /\ UNCHANGED <<kwargs, pc, idx, results>>
  /\ UNCHANGED <<toVars, tdVars, rfVars>>

\* Thread.run returned (or its exception reached threading.excepthook): the
\* thread is no longer alive, which is what join() waits for.
WorkerExit(t) ==
  /\ t \in DOMAIN list_of_threads
  /\ list_of_threads[t].state = "finishing"
  /\ list_of_threads' = [list_of_threads EXCEPT ![t].state = "stopped"]
  /\ UNCHANGED <<kwargs, pc, idx, results, invoked, finished>>
  /\ UNCHANGED <<toVars, tdVars, rfVars>>

\* Mutant of ResultPair: the value is taken from the i-th thread to finish.
ResultPairByCompletion(i) == <<kwargs[i].key, list_of_threads[finished[i]].result>>

\* line 186: the pair appended for the idx-th thread.
ResultPair(i) == <<kwargs[i].key, list_of_threads[i].result>>

\* Mutant of Joined: the caller waits for the result attribute to appear.
JoinedWhenResultSet(i) ==
  list_of_threads[i].state = "stopped" /\ list_of_threads[i].hasResult

\* thread.join() of line 185 returns once the thread is no longer alive.
Joined(i) == list_of_threads[i].state = "stopped"

\* lines 184-186: one iteration of the join loop.  thread.result of a thread
\* whose target raised is an AttributeError raised in the calling thread.
Join ==
  /\ pc = "join"
  /\ idx <= Len(list_of_threads)
  /\ Joined(idx)
  /\ IF list_of_threads[idx].hasResult
       THEN /\ results' = Append(results, ResultPair(idx))
            /\ idx' = idx + 1
            /\ pc' = pc
       ELSE /\ pc' = "raised"
            /\ UNCHANGED <<results, idx>>
  /\ UNCHANGED <<kwargs, list_of_threads, invoked, finished>>
  /\ UNCHANGED <<toVars, tdVars, rfVars>>

\* line 188: return results.
Return ==
  /\ pc = "join"
  /\ idx > Len(list_of_threads)
  /\ pc' = "returned"
  /\ UNCHANGED <<kwargs, list_of_threads, idx, results, invoked, finished>>
  /\ UNCHANGED <<toVars, tdVars, rfVars>>

MtNext ==
  \/ Create
  \/ CreateDone
  \/ Start
  \/ StartDone
  \/ \E t \in 1..Len(list_of_threads) : WorkerRun(t)
  \/ \E t \in 1..Len(list_of_threads) : WorkerExit(t)
  \/ Join
  \/ Return

\* No os_multithread call is made.
MtIdle ==
  /\ kwargs = << >>
  /\ list_of_threads = << >>
  /\ pc = "idle"
  /\ idx = 1
  /\ results = << >>
  /\ invoked = << >>
  /\ finished = << >>

\* ------------------------------------------------------------------ timeout
\* Bounds of the timeout scenarios.
MaxClock == 4
MaxDepth == 2
MaxSeconds == 2

ToInit ==
  /\ clock = 0
  /\ alarm = 0
  /\ handler = "SIG_DFL"
  /\ stack = << >>
  /\ exc = FALSE

\* signal.alarm(seconds): replaces the process's single alarm; 0 cancels it.
SignalAlarm(seconds) == IF seconds = 0 THEN 0 ELSE clock + seconds

\* lines 80-84: a call through a wrapper made by timeout(seconds); the wrapped
\* function starts running.  The call is made at top level or by the body of
\* the wrapped function that is running (a nested wrapper).
WrapperEnter(seconds) ==
  /\ ~exc
  /\ Len(stack) < MaxDepth
  /\ handler' = "_handle_timeout"
  /\ alarm' = SignalAlarm(seconds)
  /\ stack' = Append(stack, [seconds |-> seconds, entered |-> clock])
  /\ UNCHANGED <<clock, exc>>
  /\ UNCHANGED <<mtVars, tdVars, rfVars>>

\* lines 84-87: func returned; the finally clause cancels the alarm and the
\* wrapper returns the result.
WrapperReturn ==
  /\ ~exc
  /\ Len(stack) > 0
  /\ alarm' = SignalAlarm(0)
  /\ stack' = SubSeq(stack, 1, Len(stack) - 1)
  /\ UNCHANGED <<clock, handler, exc>>
  /\ UNCHANGED <<mtVars, tdVars, rfVars>>

\* One second passes while the wrapped function on top of the stack runs.
\* A due SIGALRM is delivered before more time passes.
Tick ==
  /\ ~exc
  /\ Len(stack) > 0
  /\ clock < MaxClock
  /\ ~(alarm # 0 /\ alarm = clock)
  /\ clock' = clock + 1
  /\ UNCHANGED <<alarm, handler, stack, exc>>
  /\ UNCHANGED <<mtVars, tdVars, rfVars>>

\* lines 77-78: SIGALRM is delivered at its due time and _handle_timeout raises
\* _TimeoutError in the main thread.
HandleTimeout ==
  /\ ~exc
  /\ alarm # 0
  /\ alarm = clock
  /\ handler = "_handle_timeout"
  /\ alarm' = 0
  /\ exc' = TRUE
  /\ UNCHANGED <<clock, handler, stack>>
  /\ UNCHANGED <<mtVars, tdVars, rfVars>>

\* lines 85-86 on the exception path: _TimeoutError leaves one wrapper frame,
\* whose finally clause cancels the alarm; no frame catches it.  Past the
\* outermost wrapper the caller handles it.
Unwind ==
  /\ exc
  /\ IF Len(stack) > 0
       THEN /\ alarm' = SignalAlarm(0)
            /\ stack' = SubSeq(stack, 1, Len(stack) - 1)
            /\ exc' = exc
       ELSE /\ exc' = FALSE
            /\ UNCHANGED <<alarm, stack>>
  /\ UNCHANGED <<clock, handler>>
  /\ UNCHANGED <<mtVars, tdVars, rfVars>>

\* -------------------------------------------------------------- threading_d
\* Largest number of calls through the threading_d wrapper.
MaxCalls == 3

\* Positional and keyword arguments a caller passes to the wrapper; a keyword
\* dict is the set of its (name, value) items.
CallArgs == { << >>, <<1>>, <<1, 2>> }
CallKwargs == { {}, {<<"x", 1>>} }

TdInit ==
  /\ bg_threads = << >>
  /\ td_invoked = << >>

\* line 56: Thread(target=func, args=(*args,)); Thread's kwargs default to {}.
BackgroundThread(args, kwags) ==
  [args |-> args, kwargs |-> {}, daemon |-> FALSE, state |-> "initial",
   call_args |-> args, call_kwags |-> kwags]

\* lines 55-59: wrapper(*args, **kwags) creates the thread, makes it a daemon,
\* starts it and returns it without joining it.
ThreadingWrapper(args, kwags) ==
  /\ Len(bg_threads) < MaxCalls
  /\ bg_threads' = Append(bg_threads,
       [BackgroundThread(args, kwags) EXCEPT !.daemon = TRUE, !.state = "running"])
  /\ UNCHANGED td_invoked
  /\ UNCHANGED <<mtVars, toVars, rfVars>>

\* Thread.run of background thread t: self._target(*self._args, **self._kwargs).
BgRun(t) ==
  /\ bg_threads[t].state = "running"
  /\ bg_threads' = [bg_threads EXCEPT ![t].state = "finishing"]
  /\ td_invoked' = Append(td_invoked,
       [thread |-> t, args |-> bg_threads[t].args, kwargs |-> bg_threads[t].kwargs])
  /\ UNCHANGED <<mtVars, toVars, rfVars>>

\* The background thread ends.
BgExit(t) ==
  /\ bg_threads[t].state = "finishing"
  /\ bg_threads' = [bg_threads EXCEPT ![t].state = "stopped"]
  /\ UNCHANGED td_invoked
  /\ UNCHANGED <<mtVars, toVars, rfVars>>

\* ------------------------------------------------------------- pd_read_file
\* Bounds of the reader's inputs.
MaxFiles == 3
MaxRows == 2
\* n_pool of the stress call of test.py.
StressPool == 1000

\* Pool sizes a caller passes.
PoolSizes == {0, 1, 2, StressPool}

RECURSIVE SumSeq(_)
SumSeq(s) == IF Len(s) = 0 THEN 0 ELSE s[1] + SumSeq(SubSeq(s, 2, Len(s)))

\* Mutant of EffectiveWorkers: the clamp is off by one.
EffectiveWorkersOffByOne(pool, n) ==
  LET p == IF pool < 1 THEN 1 ELSE pool IN IF p > n THEN n + 1 ELSE p

\* Number of workers used for n files: at least 1, never more than the files.
EffectiveWorkers(pool, n) ==
  LET p == IF pool < 1 THEN 1 ELSE pool IN IF p > n THEN n ELSE p

\* The ways of splitting n files into batches, one per worker: each file is
\* assigned to exactly one worker.
Partitions(n, workers) == [1..n -> 1..workers]

\* Mutant of Batch: the last file of the list is never handed out.
BatchWithoutLast(assign, w) ==
  { f \in DOMAIN assign : assign[f] = w /\ f < Len(assign) }

\* The files of worker w's batch.
Batch(assign, w) == { f \in DOMAIN assign : assign[f] = w }

\* Row count of the concatenation of the workers' tables.
Concat(tables) == SumSeq(tables)

RfInit ==
  /\ file_list \in UNION { [1..k -> 1..MaxRows] : k \in 0..MaxFiles }
  /\ n_pool \in PoolSizes
  /\ rfpc = "glob"
  /\ todo = << >>
  /\ partial = << >>
  /\ reads = [f \in DOMAIN file_list |-> 0]
  /\ combined = 0
  /\ outcomes = {}

\* No pd_read_file call is made.
RfIdle ==
  /\ file_list = << >>
  /\ n_pool = 1
  /\ rfpc = "idle"
  /\ todo = << >>
  /\ partial = << >>
  /\ reads = << >>
  /\ combined = 0
  /\ outcomes = {}

\* The pattern matches no file: the call fails at once.
EmptyResult ==
  /\ rfpc = "glob"
  /\ Len(file_list) = 0
  /\ rfpc' = "EmptyResult"
  /\ UNCHANGED <<file_list, n_pool, todo, partial, reads, combined, outcomes>>
  /\ UNCHANGED <<mtVars, toVars, tdVars>>

\* The matched files are split into batches, one per worker.
Partition ==
  /\ rfpc = "glob"
  /\ Len(file_list) > 0
  /\ LET workers == EffectiveWorkers(n_pool, Len(file_list)) IN
       \E assign \in Partitions(Len(file_list), workers) :
         /\ todo' = [w \in 1..workers |-> Batch(assign, w)]
         /\ partial' = [w \in 1..workers |-> 0]
  /\ reads' = [f \in DOMAIN file_list |-> 0]
  /\ rfpc' = "read"
  /\ UNCHANGED <<file_list, n_pool, combined, outcomes>>
  /\ UNCHANGED <<mtVars, toVars, tdVars>>

\* Worker w reads and parses one file of its batch.
WorkerRead(w) ==
  /\ rfpc = "read"
  /\ \E f \in todo[w] :
       /\ todo' = [todo EXCEPT ![w] = @ \ {f}]
       /\ partial' = [partial EXCEPT ![w] = @ + file_list[f]]
       /\ reads' = [reads EXCEPT ![f] = @ + 1]
  /\ UNCHANGED <<file_list, n_pool, rfpc, combined, outcomes>>
  /\ UNCHANGED <<mtVars, toVars, tdVars>>

\* Every worker has finished its batch: the tables are concatenated and the
\* combined table returned.
Gather ==
  /\ rfpc = "read"
  /\ \A w \in DOMAIN todo : todo[w] = {}
  /\ combined' = Concat(partial)
  /\ outcomes' = outcomes \cup {[pool |-> n_pool, rows |-> Concat(partial)]}
  /\ rfpc' = "done"
  /\ UNCHANGED <<file_list, n_pool, todo, partial, reads>>
  /\ UNCHANGED <<mtVars, toVars, tdVars>>

\* The caller reads the same pattern again with another pool size
\* (test.py reads "fab*.*" with the default pool size and with n_pool=1000).
ReadAgain(pool) ==
  /\ rfpc = "done"
  /\ pool \notin { o.pool : o \in outcomes }
  /\ n_pool' = pool
  /\ rfpc' = "glob"
  /\ todo' = << >>
  /\ partial' = << >>
  /\ UNCHANGED <<file_list, reads, combined, outcomes>>
  /\ UNCHANGED <<mtVars, toVars, tdVars>>

\* ------------------------------------------------------------ specifications
\* os_multithread.
Init == MtInit /\ ToInit /\ TdInit /\ RfIdle

Next == MtNext

Spec == Init /\ [][Next]_vars

\* os_multithread with every thread scheduled fairly: a started worker runs
\* its callable, which finishes, and the calling thread is not starved.  The
\* keywords are taken in their numbering order: a key is only copied into the
\* result list and decides no step.
FairInit == Init /\ \A i \in 1..N : kwargs[i].key = i

FairSpec ==
  /\ FairInit
  /\ [][Next]_vars
  /\ WF_vars(Create \/ CreateDone \/ Start \/ StartDone \/ Join \/ Return)
  /\ \A t \in 1..MaxTasks : WF_vars(WorkerRun(t)) /\ WF_vars(WorkerExit(t))

\* timeout.
TimeoutInit == MtIdle /\ ToInit /\ TdInit /\ RfIdle

TimeoutNext ==
  \/ \E seconds \in 1..MaxSeconds : WrapperEnter(seconds)
  \/ WrapperReturn
  \/ Tick
  \/ HandleTimeout
  \/ Unwind

TimeoutSpec == TimeoutInit /\ [][TimeoutNext]_vars

\* threading_d.
ThreadingInit == MtIdle /\ ToInit /\ TdInit /\ RfIdle

ThreadingNext ==
  \/ \E args \in CallArgs, kwags \in CallKwargs : ThreadingWrapper(args, kwags)
  \/ \E t \in 1..Len(bg_threads) : BgRun(t)
  \/ \E t \in 1..Len(bg_threads) : BgExit(t)

ThreadingSpec == ThreadingInit /\ [][ThreadingNext]_vars

\* pd_read_file.
ReadInit == MtIdle /\ ToInit /\ TdInit /\ RfInit

ReadNext ==
  \/ EmptyResult
  \/ Partition
  \/ \E w \in DOMAIN todo : WorkerRead(w)
  \/ Gather
  \/ \E pool \in PoolSizes : ReadAgain(pool)

ReadSpec == ReadInit /\ [][ReadNext]_vars


\* ------------------------------------------------------------------ claims
\* The call of os_multithread has ended: it returned or it raised.
Ended == pc \in {"returned", "raised"}

\* The value task i's callable returns for task i's argument tuple.
Expected(i) == Apply(kwargs[i].fn, kwargs[i].args)

\* C1: every call of os_multithread with N tasks returns a list of exactly N
\* (name, result) pairs in which every submitted name appears exactly once.
C1_ReturnsOnePairPerTask ==
  Ended =>
    /\ pc = "returned"
    /\ Len(results) = N
    /\ \A i \in 1..N :
         Cardinality({ j \in DOMAIN results : results[j][1] = kwargs[i].key }) = 1

\* C2: the output holds an entry for every submitted task, the task's name
\* with the value its callable returned or a record that it raised; a task
\* that raises still yields an entry and the other tasks' results are returned.
C2_EntryForEveryTask ==
  Ended =>
    \A i \in 1..N :
      \E j \in DOMAIN results :
        /\ results[j][1] = kwargs[i].key
        /\ ~Expected(i).raised => results[j][2] = Expected(i).value

\* C3: when control goes back to the caller of os_multithread, by return or
\* by an exception, no spawned worker thread is still running.
C3_NoWorkerAliveAtExit ==
  Ended => \A t \in DOMAIN list_of_threads : list_of_threads[t].state = "stopped"

\* C4: the returned list is in submission order: its i-th pair is the i-th
\* task's name with the value of the i-th task's callable on its arguments,
\* whatever order the workers finish in.
C4_SubmissionOrder ==
  pc = "returned" =>
    /\ Len(results) = N
    /\ \A i \in 1..N : results[i] = <<kwargs[i].key, Expected(i).value>>

\* A call returned whose first worker to finish was not the first submitted
\* and whose first two results differ.
C4_Witness ==
  /\ pc = "returned"
  /\ N >= 2
  /\ finished[1] # 1
  /\ results[1][2] # results[2][2]

\* C5: one worker thread per task, each running its own task's callable on
\* its own arguments once, and every worker is started before any is joined.
C5_OneThreadPerTask ==
  /\ Len(list_of_threads) <= N
  /\ pc # "create" => Len(list_of_threads) = N
  /\ \A k \in DOMAIN invoked :
       /\ invoked[k].fn = kwargs[invoked[k].thread].fn
       /\ invoked[k].args = kwargs[invoked[k].thread].args
  /\ \A k1, k2 \in DOMAIN invoked :
       invoked[k1].thread = invoked[k2].thread => k1 = k2
  /\ pc \in {"join", "returned", "raised"} =>
       \A t \in DOMAIN list_of_threads : list_of_threads[t].state # "initial"
  /\ pc = "returned" => Len(invoked) = N

\* The caller is in the join loop of a call with several tasks, none of whose
\* workers has run its callable yet.
C5_Witness ==
  /\ pc = "join"
  /\ N >= 2
  /\ invoked = << >>
  /\ \A t \in DOMAIN list_of_threads : list_of_threads[t].state = "running"

\* C10: when every callable finishes and the threads are scheduled fairly,
\* the call of os_multithread ends; the join loop only waits on started threads.
C10_CallEnds ==
  /\ [](pc = "join" /\ idx <= N => list_of_threads[idx].state # "initial")
  /\ <>Ended

\* A call with several tasks ended although its last worker finished first.
C10_Witness ==
  /\ Ended
  /\ N >= 2
  /\ finished # << >>
  /\ finished[1] = N

\* C8: a wrapped function still running `seconds` seconds after its wrapper
\* was entered is interrupted: no wrapper frame outlives its deadline, nested
\* wrappers included.
C8_DeadlineFires ==
  \A i \in DOMAIN stack : clock <= stack[i].entered + stack[i].seconds

\* C9: the wrapper returns a started daemon thread, and that thread runs func
\* once with the positional and the keyword arguments of the call.
C9_RunsWithCallArguments ==
  /\ \A t \in DOMAIN bg_threads :
       bg_threads[t].daemon /\ bg_threads[t].state # "initial"
  /\ \A k \in DOMAIN td_invoked :
       /\ td_invoked[k].args = bg_threads[td_invoked[k].thread].call_args
       /\ td_invoked[k].kwargs = bg_threads[td_invoked[k].thread].call_kwags
  /\ \A k1, k2 \in DOMAIN td_invoked :
       td_invoked[k1].thread = td_invoked[k2].thread => k1 = k2

\* C6: for K >= 1 matched files and any pool size the combined table has the
\* sum of the files' rows: batches are disjoint, cover the list, and every
\* file is read by exactly one worker.
C6_RowCount ==
  /\ rfpc = "read" =>
       /\ \A w1, w2 \in DOMAIN todo : w1 # w2 => todo[w1] \cap todo[w2] = {}
       /\ \A f \in DOMAIN file_list :
            reads[f] = IF \E w \in DOMAIN todo : f \in todo[w] THEN 0 ELSE 1
  /\ rfpc = "done" =>
       /\ combined = SumSeq(file_list)
       /\ \A f \in DOMAIN file_list : reads[f] = 1

\* Several files were read by several workers and combined.
C6_Witness ==
  /\ rfpc = "done"
  /\ Len(file_list) >= 2
  /\ Len(partial) >= 2
  /\ \A w \in DOMAIN partial : partial[w] > 0

\* C7: the worker count never exceeds the number of files, and the combined
\* row count of one pattern is the same for every pool size, 1 and 1000 included.
C7_OverProvisioning ==
  /\ rfpc \in {"read", "done"} =>
       /\ Len(todo) <= Len(file_list)
       /\ Len(todo) <= (IF n_pool < 1 THEN 1 ELSE n_pool)
  /\ \A o1, o2 \in outcomes : o1.rows = o2.rows

\* The same files were read with pool size 1 and with pool size 1000.
C7_Witness ==
  /\ Len(file_list) >= 2
  /\ \E o \in outcomes : o.pool = 1
  /\ \E o \in outcomes : o.pool = StressPool

====
